---- MODULE Spec2Model ----
(***************************************************************************)
(* The sandboxed code-execution subsystem of cloudflare-mcp: the cached    *)
(* executors of createCodeExecutor / createSearchExecutor, their LRU       *)
(* WorkerCache, the key derivation simpleHash and the evaluate bridge of   *)
(* the worker templates.                                                   *)
(*                                                                         *)
(* A JavaScript string that the program reads character by character (the  *)
(* code, the account id, a cache key) is a sequence of UTF-16 code units;  *)
(* a string that is only passed around or concatenated into a message is a *)
(* TLA+ string.                                                            *)
(***************************************************************************)
EXTENDS Integers, Sequences, FiniteSets, TLC

(***************************************************************************)
(* Bounds of the model.                                                    *)
(***************************************************************************)
\* new WorkerCache(20) of createCodeExecutor, scaled down: the class is
\* parametric in maxSize and a cache of 20 entries has too many orders.
ApiMaxSize == 3
\* new WorkerCache(5) of createSearchExecutor, scaled down likewise.
SearchMaxSize == 2
\* Requests of one executor that can be in flight at the same time.
MaxInFlight == 2

Slots == 1..MaxInFlight

(***************************************************************************)
(* simpleHash                                                              *)
(***************************************************************************)
\* hash << 5: the low 27 bits of hash move up by five, and bit 26 becomes the
\* sign.
ShiftLeft5(hash) ==
    LET low27 == hash % 134217728
    IN  IF low27 >= 67108864 THEN (low27 - 134217728) * 32 ELSE low27 * 32

\* x wrapped to a signed 16-bit half.
Wrap16(x) == ((x + 32768) % 65536) - 32768

\* hash & hash applied to (shifted + hash) + char: the sum wrapped to the
\* signed 32-bit range (the hash of a multiplier 33).
AndSelfOfSum(shifted, hash, char) ==
    LET t  == (shifted % 65536) + (hash % 65536) + char
        hi == (shifted \div 65536) + (hash \div 65536) + (t \div 65536)
    IN  Wrap16(hi) * 65536 + (t % 65536)

\* hash & hash applied to (shifted - hash) + char: ToInt32 of the exact
\* value, which can lie outside the 32-bit range.  It is computed on the
\* 16-bit halves, so that no intermediate value leaves that range.
AndSelf(shifted, hash, char) ==
    LET t  == (shifted % 65536) - (hash % 65536) + char
        hi == (shifted \div 65536) - (hash \div 65536) + (t \div 65536)
    IN  Wrap16(hi) * 65536 + (t % 65536)

\* hash after the first n characters of str: the loop of simpleHash,
\* hash = ((hash << 5) - hash) + char; hash = hash & hash.
\* (The loop body is a function applied to the previous hash, which makes
\* TLC compute the previous hash first.)
RECURSIVE HashLoop(_, _)
HashLoop(str, n) ==
    IF n = 0 THEN 0
    ELSE [hash \in Int |-> AndSelf(ShiftLeft5(hash), hash, str[n])
         ][HashLoop(str, n - 1)]

\* A digit of Number.prototype.toString(36) as its code unit: 0-9, a-z.
Digit36(d) == IF d < 10 THEN 48 + d ELSE 87 + d

RECURSIVE Digits36(_)
Digits36(n) ==
    IF n < 36 THEN <<Digit36(n)>>
    ELSE Digits36(n \div 36) \o <<Digit36(n % 36)>>

\* hash.toString(36): "-" and the digits of the magnitude for a negative
\* number.  The magnitude of a negative n = 36 * q + r (0 <= r < 36, q < 0)
\* is 36 * (-q) when r = 0 and 36 * (-q - 1) + (36 - r) otherwise, which
\* keeps -(2^31) inside the integers of TLC.
toString36(n) ==
    IF n >= 0 THEN Digits36(n)
    ELSE LET q    == n \div 36
             r    == n % 36
             high == IF r = 0 THEN -q ELSE -q - 1
             last == IF r = 0 THEN 0 ELSE 36 - r
         IN  <<45>> \o (IF high = 0 THEN <<>> ELSE Digits36(high))
                    \o <<Digit36(last)>>

simpleHash(str) == toString36(HashLoop(str, Len(str)))

(***************************************************************************)
(* Map<string, T>: the entries in insertion order.                         *)
(***************************************************************************)
MapKeys(m) == {m[i].key : i \in 1..Len(m)}

MapHas(m, key) == key \in MapKeys(m)

\* JavaScript's undefined.
Undefined == [t |-> "undefined"]

MapGet(m, key) ==
    IF MapHas(m, key)
    THEN (CHOOSE e \in {m[i] : i \in 1..Len(m)} : e.key = key).value
    ELSE Undefined

MapDelete(m, key) == SelectSeq(m, LAMBDA e : e.key # key)

\* Map.prototype.set: a present key keeps its place and takes the value, a
\* new key goes to the end.
MapSet(m, key, value) ==
    IF MapHas(m, key)
    THEN [i \in 1..Len(m) |->
            IF m[i].key = key THEN [key |-> key, value |-> value] ELSE m[i]]
    ELSE Append(m, [key |-> key, value |-> value])

(***************************************************************************)
(* class WorkerCache                                                       *)
(***************************************************************************)
\* A get that returns the value and leaves the entry at its place.
WorkerCacheGetInPlace(m, key) == [value |-> MapGet(m, key), cache |-> m]

\* A get that puts the entry at the end again without deleting it first.
WorkerCacheGetAppend(m, key) ==
    LET value == MapGet(m, key)
    IN  [value |-> value,
         cache |-> IF value # Undefined
                   THEN Append(m, [key |-> key, value |-> value])
                   ELSE m]

\* A get that takes the entry out of the map.
WorkerCacheGetTake(m, key) ==
    [value |-> MapGet(m, key), cache |-> MapDelete(m, key)]

\* get(key): the value returned and the map afterwards.
WorkerCacheGet(m, key) ==
    LET value == MapGet(m, key)
    IN  [value |-> value,
         cache |-> IF value # Undefined
                   THEN MapSet(MapDelete(m, key), key, value)
                   ELSE m]

\* An eviction loop that starts one entry too late: size > maxSize.
RECURSIVE EvictWhileOver(_, _)
EvictWhileOver(m, maxSize) ==
    IF Len(m) > maxSize
    THEN EvictWhileOver(MapDelete(m, m[1].key), maxSize)
    ELSE m

\* while (this.cache.size >= this.maxSize) delete the first key.
RECURSIVE EvictWhileFull(_, _)
EvictWhileFull(m, maxSize) ==
    IF Len(m) >= maxSize /\ Len(m) > 0
    THEN EvictWhileFull(MapDelete(m, m[1].key), maxSize)
    ELSE m

\* A set that makes room before it looks whether the key is there.
WorkerCacheSetEvictFirst(m, key, value, maxSize) ==
    LET m1 == EvictWhileFull(m, maxSize)
    IN  MapSet(MapDelete(m1, key), key, value)

\* set(key, value): the map afterwards.
WorkerCacheSet(m, key, value, maxSize) ==
    LET m1 == IF MapHas(m, key) THEN MapDelete(m, key) ELSE m
    IN  MapSet(EvictWhileFull(m1, maxSize), key, value)

(***************************************************************************)
(* JavaScript values that cross the bridge.                                *)
(***************************************************************************)
Null == [t |-> "null"]
JsString(s) == [t |-> "string", s |-> s]
\* A string held as code units (the embedded accountId).
JsText(chars) == [t |-> "text", chars |-> chars]
JsNumber(n) == [t |-> "number", n |-> n]
JsObject(fields) == [t |-> "object", fields |-> fields]
JsBoolean(b) == [t |-> "boolean", b |-> b]
JsArray(items) == [t |-> "array", items |-> items]
\* An Error object: err.message and err.stack are strings.
JsError(name, message) ==
    [t |-> "Error", name |-> name, message |-> message,
     stack |-> name \o ": " \o message \o "\n    at evaluate"]

\* err.message / err.stack of a caught value: a property read of null or
\* undefined throws a TypeError, of another primitive gives undefined.
HasProperties(v) == v.t \notin {"null", "undefined"}
MessageOf(v) == IF v.t = "Error" THEN JsString(v.message) ELSE Undefined
StackOf(v) == IF v.t = "Error" THEN JsString(v.stack) ELSE Undefined

\* ToBoolean, as if (response.err) applies it.
Truthy(v) ==
    CASE v.t = "undefined" -> FALSE
      [] v.t = "null"      -> FALSE
      [] v.t = "string"    -> v.s # ""
      [] v.t = "text"      -> v.chars # <<>>
      [] v.t = "number"    -> v.n # 0
      [] OTHER             -> TRUE

\* String(v) for the values new Error(response.err) is given.
ToStringOf(v) ==
    CASE v.t = "string"    -> v.s
      [] v.t = "undefined" -> "undefined"
      [] v.t = "null"      -> "null"
      [] OTHER             -> "[object]"

RECURSIVE ToDecimal(_)
ToDecimal(n) ==
    LET digit == <<"0", "1", "2", "3", "4", "5", "6", "7", "8", "9">>
    IN  IF n < 10 THEN digit[n + 1]
        ELSE ToDecimal(n \div 10) \o digit[(n % 10) + 1]

(***************************************************************************)
(* Inputs: the executors' arguments and environment.                       *)
(***************************************************************************)
\* code strings, as code units
CodeAa    == <<40, 41, 61, 62, 39, 65, 97, 39>>              \* ()=>'Aa'
CodeBB    == <<40, 41, 61, 62, 39, 66, 66, 39>>              \* ()=>'BB'
CodeVoid  == <<40, 41, 61, 62, 123, 125>>                    \* ()=>{}
CodeThrowEmpty ==                                            \* ()=>{throw Error()}
    <<40, 41, 61, 62, 123, 116, 104, 114, 111, 119, 32, 69, 114, 114, 111,
      114, 40, 41, 125>>
CodeThrowZero ==                                             \* ()=>{throw 0}
    <<40, 41, 61, 62, 123, 116, 104, 114, 111, 119, 32, 48, 125>>
CodeThrowNull ==                                             \* ()=>{throw null}
    <<40, 41, 61, 62, 123, 116, 104, 114, 111, 119, 32, 110, 117, 108, 108,
      125>>
CodeNullX == <<40, 41, 61, 62, 110, 117, 108, 108, 46, 120>> \* ()=>null.x
CodeSyntax == <<40, 41, 61, 62, 123>>                        \* ()=>{
CodeToggle ==                                                \* ()=>spec.paths=!spec.paths
    <<40, 41, 61, 62, 115, 112, 101, 99, 46, 112, 97, 116, 104, 115, 61, 33,
      115, 112, 101, 99, 46, 112, 97, 116, 104, 115>>
CodeFetch ==                                                 \* ()=>fetch('http://x').then(r=>r.ok)
    <<40, 41, 61, 62, 102, 101, 116, 99, 104, 40, 39, 104, 116, 116, 112, 58,
      47, 47, 120, 39, 41, 46, 116, 104, 101, 110, 40, 114, 61, 62, 114, 46,
      111, 107, 41>>
CodeAccountId ==                                             \* ()=>accountId
    <<40, 41, 61, 62, 97, 99, 99, 111, 117, 110, 116, 73, 100>>
\* ()=>cloudflare.request({path:'/
RequestPrefix ==
    <<40, 41, 61, 62, 99, 108, 111, 117, 100, 102, 108, 97, 114, 101, 46, 114,
      101, 113, 117, 101, 115, 116, 40, 123, 112, 97, 116, 104, 58, 39, 47>>
\* '})
RequestSuffix == <<39, 125, 41>>
CodeRequestAa == RequestPrefix \o <<65, 97>> \o RequestSuffix
CodeRequestBB == RequestPrefix \o <<66, 66>> \o RequestSuffix

SearchCodes ==
    {CodeAa, CodeBB, CodeVoid, CodeThrowEmpty, CodeThrowZero, CodeThrowNull,
     CodeNullX, CodeSyntax, CodeToggle}
ApiCodes == {CodeRequestAa, CodeRequestBB, CodeAccountId}
\* the codes of the search executor that is watched for outbound requests
EgressCodes == {CodeAa, CodeVoid, CodeFetch}

\* account_id: "a", "a:b"
Accounts == {<<97>>, <<97, 58, 98>>}
\* apiToken
Tokens == {"tok1", "tok2"}
\* env.CLOUDFLARE_API_BASE
ApiBase == "https://api.cloudflare.com/client/v4"
\* spec.json, serialized
SpecJson == "{\"paths\":{}}"
\* spec after spec.paths = false and after spec.paths = true
SpecPathsFalse == "{\"paths\":false}"
SpecPathsTrue == "{\"paths\":true}"

Variants == {"search", "api"}

(***************************************************************************)
(* The executors: what the two factories differ in.                        *)
(***************************************************************************)
\* The search executor takes no accountId and passes evaluate no argument.
NoAccount == <<>>
NoToken == ""

\* new WorkerCache(...) of the factory
MaxSizeOf(v) == IF v = "api" THEN ApiMaxSize ELSE SearchMaxSize

\* const codeHash = simpleHash(code), for the codes of the model
codeHash ==
    [code \in SearchCodes \cup ApiCodes \cup EgressCodes |-> simpleHash(code)]

\* A key that is the hash of the code alone for both executors.
CacheKeyCodeOnly(v, code, accountId) == codeHash[code]

\* `${accountId}:${codeHash}` (api), codeHash (search)
CacheKey(v, code, accountId) ==
    IF v = "api" THEN accountId \o <<58>> \o codeHash[code]
    ELSE codeHash[code]

\* `cloudflare-api-${cacheKey}`, `cloudflare-search-${codeHash}`
WorkerId(v, cacheKey) ==
    [prefix |-> IF v = "api" THEN "cloudflare-api-" ELSE "cloudflare-search-",
     key    |-> cacheKey]

\* A definition that carries the credential of the call that builds it, as
\* the env: { apiToken } of the executor without a cache does.
WorkerDefinitionWithToken(v, code, accountId, apiToken) ==
    IF v = "api"
    THEN [template |-> "CodeExecutor", apiBase |-> ApiBase,
          accountId |-> accountId, code |-> code,
          env |-> [apiToken |-> apiToken]]
    ELSE [template |-> "SearchExecutor", spec |-> SpecJson, code |-> code]

\* What the callback given to env.LOADER.get returns: the template with its
\* embedded literals and the code.  The api template embeds apiBase and
\* accountId, the search template the serialized spec; the apiToken of the
\* call is in the callback's scope and neither template embeds it.
WorkerDefinition(v, code, accountId, apiToken) ==
    IF v = "api"
    THEN [template |-> "CodeExecutor", apiBase |-> ApiBase,
          accountId |-> accountId, code |-> code]
    ELSE [template |-> "SearchExecutor", spec |-> SpecJson, code |-> code]

(***************************************************************************)
(* Inside a sandbox.                                                       *)
(***************************************************************************)
Return(v) == [kind |-> "return", value |-> v]
Throw(v) == [kind |-> "throw", value |-> v]
Request(path) == [kind |-> "request", path |-> path]
\* the code calls the global fetch(url) and awaits it
GlobalFetch(url) == [kind |-> "fetch", url |-> url]
\* The code returns v after it has assigned to a property of spec.
ReturnAndWrite(v, json) == [kind |-> "return", value |-> v, spec |-> json]
\* The module text of the definition does not compile: no sandbox is made.
Unloadable(e) == [kind |-> "unloadable", value |-> e]

\* What evaluate's (code)() does in a worker of the given definition: it
\* returns a value, throws a value, or calls cloudflare.request and returns
\* its promise; or the module, which holds the code verbatim, does not load.
\* cloudflare and accountId are bound in the api template only, spec in the
\* search template only; def.spec is the value spec has in the worker now.
RunCode(def) ==
    LET api == def.template = "CodeExecutor"
    IN  CASE def.code = CodeAa         -> Return(JsString("Aa"))
          [] def.code = CodeBB         -> Return(JsString("BB"))
          [] def.code = CodeVoid       -> Return(Undefined)
          [] def.code = CodeThrowEmpty -> Throw(JsError("Error", ""))
          [] def.code = CodeThrowZero  -> Throw(JsNumber(0))
          [] def.code = CodeThrowNull  -> Throw(Null)
          [] def.code = CodeNullX      ->
                Throw(JsError("TypeError",
                              "Cannot read properties of null (reading 'x')"))
          [] def.code = CodeSyntax     ->
                Unloadable(JsError("SyntaxError", "Unexpected end of input"))
          [] def.code = CodeToggle     ->
                IF api THEN Throw(JsError("ReferenceError", "spec is not defined"))
                ELSE IF def.spec = SpecPathsFalse
                THEN ReturnAndWrite(JsBoolean(TRUE), SpecPathsTrue)
                ELSE ReturnAndWrite(JsBoolean(FALSE), SpecPathsFalse)
          [] def.code = CodeFetch      -> GlobalFetch("http://x")
          [] def.code = CodeAccountId  ->
                IF api THEN Return(JsText(def.accountId))
                ELSE Throw(JsError("ReferenceError", "accountId is not defined"))
          [] def.code = CodeRequestAa  ->
                IF api THEN Request("/Aa")
                ELSE Throw(JsError("ReferenceError", "cloudflare is not defined"))
          [] def.code = CodeRequestBB  ->
                IF api THEN Request("/BB")
                ELSE Throw(JsError("ReferenceError", "cloudflare is not defined"))

\* return { result, err: undefined }
BridgeReturn(v) ==
    [state |-> "fulfilled", result |-> v, err |-> Undefined,
     stack |-> Undefined, reason |-> Undefined]

\* catch (err) { return { result: undefined, err: err.message, stack: err.stack } }
\* The property reads throw for null and undefined, and evaluate rejects.
BridgeCatch(thrown) ==
    IF HasProperties(thrown)
    THEN [state |-> "fulfilled", result |-> Undefined,
          err |-> MessageOf(thrown), stack |-> StackOf(thrown),
          reason |-> Undefined]
    ELSE [state |-> "rejected", result |-> Undefined, err |-> Undefined,
          stack |-> Undefined,
          reason |-> JsError("TypeError",
                     "Cannot read properties of " \o ToStringOf(thrown)
                       \o " (reading 'message')")]

\* The worker of the handle could not be loaded: the call of its entrypoint
\* rejects.
LoadFailure(e) ==
    [state |-> "rejected", result |-> Undefined, err |-> Undefined,
     stack |-> Undefined, reason |-> e]

\* What the awaited evaluate gives for an ended run.
BridgeOutcome(run) ==
    CASE run.kind = "return"     -> BridgeReturn(run.value)
      [] run.kind = "throw"      -> BridgeCatch(run.value)
      [] run.kind = "unloadable" -> LoadFailure(run.value)

\* The request cloudflare.request sends: apiBase + path, and the apiToken
\* argument of evaluate as the bearer token.
UpstreamRequest(def, apiToken, path) ==
    [url |-> def.apiBase \o path, authorization |-> "Bearer " \o apiToken]

\* "application/json"
ApplicationJson ==
    <<97, 112, 112, 108, 105, 99, 97, 116, 105, 111, 110, 47, 106, 115, 111,
      110>>
\* "text/plain"
TextPlain == <<116, 101, 120, 116, 47, 112, 108, 97, 105, 110>>

\* String.prototype.includes
Includes(s, sub) ==
    \E i \in 0..(Len(s) - Len(sub)) :
        \A j \in 1..Len(sub) : s[i + j] = sub[j]

RECURSIVE JoinErrors(_)
\* data.errors.map(e => e.code + ": " + e.message).join(", ")
JoinErrors(errors) ==
    IF errors = <<>> THEN ""
    ELSE LET e == ToDecimal(errors[1].code) \o ": " \o errors[1].message
         IN  IF Len(errors) = 1 THEN e
             ELSE e \o ", " \o JoinErrors(Tail(errors))

\* cloudflare.request of the executor without a cache (src/src/executor.ts):
\* every body is parsed as JSON, and response.json() throws for a body that is
\* not JSON.
RequestOutcomeJsonOnly(resp) ==
    IF ~Includes(resp.contentType, ApplicationJson)
    THEN Throw(JsError("SyntaxError", "Unexpected token in JSON"))
    ELSE IF ~resp.data.success
         THEN Throw(JsError("Error", "Cloudflare API error: "
                       \o JoinErrors(resp.data.errors)))
         ELSE Return(JsObject(resp.data))

\* How cloudflare.request ends for a response.
RequestOutcome(resp) ==
    IF ~Includes(resp.contentType, ApplicationJson)
    THEN IF ~resp.ok
         THEN Throw(JsError("Error", "Cloudflare API error: "
                       \o ToDecimal(resp.status) \o " " \o resp.text))
         ELSE Return(JsObject([success |-> TRUE, result |-> resp.text]))
    ELSE IF ~resp.data.success
         THEN Throw(JsError("Error", "Cloudflare API error: "
                       \o JoinErrors(resp.data.errors)))
         ELSE Return(JsObject(resp.data))

\* The responses of the upstream API.
NoData == [success |-> FALSE, result |-> "", errors |-> <<>>]
Responses ==
    {[contentType |-> ApplicationJson, ok |-> TRUE, status |-> 200, text |-> "",
      data |-> [success |-> TRUE, result |-> "scripts", errors |-> <<>>]],
     [contentType |-> ApplicationJson, ok |-> FALSE, status |-> 403, text |-> "",
      data |-> [success |-> FALSE, result |-> "",
                errors |-> <<[code |-> 1000, message |-> "bad auth"],
                             [code |-> 7003, message |-> "no route"]>>]],
     [contentType |-> TextPlain, ok |-> TRUE, status |-> 200, text |-> "value",
      data |-> NoData],
     [contentType |-> <<>>, ok |-> FALSE, status |-> 404, text |-> "not found",
      data |-> NoData]}

(***************************************************************************)
(* The service side of a call, after await entrypoint.evaluate(...).       *)
(***************************************************************************)
\* if (response.err) throw new Error(response.err); return response.result;
\* a rejected evaluate throws at the await.
ServiceResult(response) ==
    IF response.state = "rejected"
    THEN [state |-> "threw", value |-> Undefined, error |-> response.reason]
    ELSE IF Truthy(response.err)
    THEN [state |-> "threw", value |-> Undefined,
          error |-> JsError("Error", ToStringOf(response.err))]
    ELSE [state |-> "returned", value |-> response.result, error |-> Undefined]

(***************************************************************************)
(* The tool handlers of createServer ("search", "execute"): the callers of *)
(* the executors.                                                          *)
(***************************************************************************)
\* The output budget of truncateResponse (about 10,000 token-equivalents),
\* scaled down to the sizes of the model's values.
Budget == 20

\* The size of a result as truncateResponse serializes it.
SerializedSize(v) ==
    CASE v.t = "string"    -> Len(v.s) + 2
      [] v.t = "text"      -> Len(v.chars) + 2
      [] v.t = "number"    -> Len(ToDecimal(v.n))
      [] v.t = "object"    -> 28 + Len(v.fields.result)
      [] OTHER             -> 4

\* truncateResponse(result): the text for the result, cut to the budget with
\* a note of the original size when the result is larger.
truncateResponse(result) ==
    LET n == SerializedSize(result)
    IN  IF n <= Budget
        THEN [of |-> result, size |-> n, truncated |-> FALSE, original |-> n]
        ELSE [of |-> result, size |-> Budget, truncated |-> TRUE, original |-> n]

\* error instanceof Error ? error.message : String(error)
ErrorMessage(error) ==
    IF error.t = "Error" THEN error.message ELSE ToStringOf(error)

\* A handler that returns the result as it is.
ToolResponseRaw(out) ==
    IF out.state = "returned"
    THEN [sent |-> TRUE, isError |-> FALSE,
          text |-> [of |-> out.value, size |-> SerializedSize(out.value),
                    truncated |-> FALSE, original |-> SerializedSize(out.value)]]
    ELSE [sent |-> TRUE, isError |-> TRUE,
          text |-> "Error: " \o ErrorMessage(out.error)]

\* The handler's try / catch around the call of the executor.
ToolResponse(out) ==
    IF out.state = "returned"
    THEN [sent |-> TRUE, isError |-> FALSE, text |-> truncateResponse(out.value)]
    ELSE [sent |-> TRUE, isError |-> TRUE,
          text |-> "Error: " \o ErrorMessage(out.error)]

(***************************************************************************)
(* The fetch handler of the service (index.ts): the token of a request and *)
(* its verification.                                                       *)
(***************************************************************************)
\* "Bearer"
Bearer == <<66, 101, 97, 114, 101, 114>>
\* \s of a regular expression, \S is every other character
IsSpace(c) == c \in {9, 10, 11, 12, 13, 32, 160}

\* The end of the longest run of spaces (space = TRUE) or of other characters
\* (space = FALSE) of h that starts at position from; from - 1 if there is
\* none.
RunEnd(h, from, space) ==
    CHOOSE k \in (from - 1)..Len(h) :
        /\ \A j \in from..k : IsSpace(h[j]) = space
        /\ k = Len(h) \/ IsSpace(h[k + 1]) # space

\* /Bearer\s+(\S+)/ matches h from position i on: the characters after
\* "Bearer" are spaces, one at least, and a character that is no space
\* follows them.
MatchesAt(h, i) ==
    /\ i + Len(Bearer) - 1 <= Len(h)
    /\ SubSeq(h, i, i + Len(Bearer) - 1) = Bearer
    /\ LET spaces == RunEnd(h, i + Len(Bearer), TRUE)
       IN  spaces >= i + Len(Bearer) /\ spaces < Len(h)

\* extractToken(authHeader): match[1] of the leftmost match, or null.
extractToken(authHeader) ==
    LET h      == authHeader.chars
        starts == {i \in 1..Len(h) : MatchesAt(h, i)}
    IN  IF starts = {} THEN Null
        ELSE LET i      == CHOOSE j \in starts : \A k \in starts : j <= k
                 spaces == RunEnd(h, i + Len(Bearer), TRUE)
             IN  JsText(SubSeq(h, spaces + 1, RunEnd(h, spaces + 1, FALSE)))

\* isLocalhostHostname(hostname)
isLocalhostHostname(hostname) ==
    hostname = "localhost" \/ hostname = "127.0.0.1" \/ hostname = "0.0.0.0"

\* getApiTokenFromEnv(env): env.CLOUDFLARE_API_TOKEN if it is a string that is
\* not empty, or null.
getApiTokenFromEnv(envToken) ==
    IF envToken.t = "text" /\ Len(envToken.chars) > 0 THEN envToken ELSE Null

\* if (authHeader): the header is there and not the empty string.
HasHeader(authHeader) == Truthy(authHeader)

\* The token of a request, where it came from, and whether the handler
\* returned for a header without a token: lines 81 to 90 of fetch.
ChooseToken(hostname, authHeader, envToken) ==
    IF HasHeader(authHeader)
    THEN LET token == extractToken(authHeader)
         IN  [token |-> token, source |-> "header", malformed |-> token = Null]
    ELSE IF isLocalhostHostname(hostname)
    THEN [token |-> getApiTokenFromEnv(envToken), source |-> "env",
          malformed |-> FALSE]
    ELSE [token |-> Null, source |-> "none", malformed |-> FALSE]

\* e.message of every error, joined with ", "
RECURSIVE JoinMessages(_)
JoinMessages(errors) ==
    IF errors = <<>> THEN ""
    ELSE IF Len(errors) = 1 THEN errors[1]
    ELSE errors[1] \o ", " \o JoinMessages(Tail(errors))

\* The answers of the API to the two requests of verifyToken: the fetch or
\* the parsing of the body throws, or the body is an envelope.
Thrown(message) == [kind |-> "throws", message |-> message]
Envelope(success, result, errors) ==
    [kind |-> "json", success |-> success, result |-> result,
     errors |-> errors]
UserResponses ==
    {Thrown("Network connection lost."),
     Envelope(TRUE, Undefined, Undefined),
     Envelope(FALSE, Undefined, JsArray(<<"Invalid API Token">>)),
     Envelope(FALSE, Undefined, Undefined)}
AccountsResponses ==
    {Thrown("Unexpected end of JSON input"),
     Envelope(FALSE, Undefined, JsArray(<<"Authentication error">>)),
     Envelope(TRUE, Undefined, Undefined),
     Envelope(TRUE, JsArray(<<>>), Undefined),
     Envelope(TRUE, JsArray(<<"acc1">>), Undefined),
     Envelope(TRUE, JsArray(<<"acc1", "acc2">>), Undefined)}

Verification(valid, accountId, error) ==
    [valid |-> valid, accountId |-> accountId, error |-> error]

\* accountsData.result?.length as if (!...) reads it: nothing or no account.
NoLength(result) == result = Undefined \/ Len(result.items) = 0

\* A verifyToken that takes the first account of any list of accounts.
verifyTokenFirstAccount(user, accounts) ==
    IF user.kind = "throws" \/ accounts.kind = "throws"
    THEN Verification(FALSE, Undefined, JsString("Failed to verify token"))
    ELSE IF user.success THEN Verification(TRUE, Undefined, Undefined)
    ELSE IF ~accounts.success \/ NoLength(accounts.result)
    THEN Verification(FALSE, Undefined, JsString("Invalid token"))
    ELSE Verification(TRUE, JsString(accounts.result.items[1]), Undefined)

\* verifyToken(token), for the answers to its two requests.
verifyToken(user, accounts) ==
    IF user.kind = "throws" \/ accounts.kind = "throws"
    THEN Verification(FALSE, Undefined,
             JsString("Failed to verify token: "
                        \o (IF user.kind = "throws" THEN user.message
                            ELSE accounts.message)))
    ELSE IF user.success THEN Verification(TRUE, Undefined, Undefined)
    ELSE IF ~accounts.success \/ NoLength(accounts.result)
    THEN Verification(FALSE, Undefined,
             IF user.errors = Undefined \/ JoinMessages(user.errors.items) = ""
             THEN JsString("Invalid token")
             ELSE JsString(JoinMessages(user.errors.items)))
    ELSE IF Len(accounts.result.items) > 1
    THEN Verification(FALSE, Undefined,
             JsString("Token has access to multiple accounts - "
                        \o "use a single-account token"))
    ELSE Verification(TRUE, JsString(accounts.result.items[1]), Undefined)

\* A handler that serves whatever the verification says.
AdmitsAll(verification) == TRUE

\* if (!verification.valid) return jsonError(...): the handler goes on for a
\* valid verification only.
Admits(verification) == verification.valid

\* jsonError(message, status = 401)
jsonError(message) ==
    [status |-> 401, contentType |-> "application/json",
     body |-> [error |-> message]]

\* The requests of the model: hostname, Authorization header (null: there is
\* none) and env.CLOUDFLARE_API_TOKEN (undefined: not set).
Hostnames == {"localhost", "127.0.0.1", "0.0.0.0", "mcp.example.com"}
AuthHeaders ==
    {Null,
     JsText(<<>>),
     \* Bearer tokA
     JsText(<<66, 101, 97, 114, 101, 114, 32, 116, 111, 107, 65>>),
     \* Bearer
     JsText(<<66, 101, 97, 114, 101, 114>>),
     \* Basic abc
     JsText(<<66, 97, 115, 105, 99, 32, 97, 98, 99>>),
     \* bearer tokA
     JsText(<<98, 101, 97, 114, 101, 114, 32, 116, 111, 107, 65>>),
     \* Basic Bearer  tokB x
     JsText(<<66, 97, 115, 105, 99, 32, 66, 101, 97, 114, 101, 114, 32, 32,
              116, 111, 107, 66, 32, 120>>)}
\* not set, "", "envtok"
EnvTokens ==
    {Undefined, JsText(<<>>), JsText(<<101, 110, 118, 116, 111, 107>>)}

NoVerification == Verification(FALSE, Undefined, Undefined)
NoHttpResponse == [status |-> 0, contentType |-> "", body |-> [error |-> ""]]
NoHttp ==
    [pc |-> "idle", hostname |-> "", authHeader |-> Null, envToken |-> Undefined,
     token |-> Null, source |-> "none", user |-> Thrown(""),
     accounts |-> Thrown(""), verification |-> NoVerification,
     server |-> FALSE, response |-> NoHttpResponse]

(***************************************************************************)
(* One executor: the closure createCodeExecutor or createSearchExecutor     *)
(* returns, with the workerCache it owns.  The two executors share no      *)
(* state; a behaviour follows one of them.                                 *)
(***************************************************************************)
VARIABLES
    variant,    \* "api": built by createCodeExecutor, "search": by createSearchExecutor
    cache,      \* workerCache.cache, the Map in insertion order
    req,        \* the calls of the executor in flight, by slot
    running,    \* the call whose JavaScript is on the stack, 0 when none is
    lastUse,    \* history: each cached key's rank in the order of last access
    evicted,    \* history: the keys the last step removed from the cache
    heap,       \* by worker id key: the value of spec in a worker whose spec was written
    seen,       \* history: by code, the outcome of the first call that ran it
    op,         \* history: the get or set on the cache that the last step was
    lastSet,    \* history: by cached key, the value of the last set of the key
    http        \* the fetch handler of the service: the HTTP request it is at

vars ==
    <<variant, cache, req, running, lastUse, evicted, heap, seen, op, lastSet,
      http>>

NoResponse ==
    [state |-> "none", result |-> Undefined, err |-> Undefined,
     stack |-> Undefined, reason |-> Undefined]
NoResult == [state |-> "none", value |-> Undefined, error |-> Undefined]
NoRequest == [url |-> "", authorization |-> ""]
NoReply == [sent |-> FALSE, isError |-> FALSE, text |-> ""]
\* the operations of a WorkerCache as the history keeps them: get with the
\* value returned, set with the value given, and whether the key was there
NoOp == [name |-> "none", key |-> <<>>, value |-> Undefined, had |-> FALSE]
GetOp(m, key, returned) ==
    [name |-> "get", key |-> key, value |-> returned, had |-> MapHas(m, key)]
SetOp(m, key, value) ==
    [name |-> "set", key |-> key, value |-> value, had |-> MapHas(m, key)]
\* the values last set, for the keys of the map m after a set of key
Stored(m, key, value) ==
    [k \in MapKeys(m) |-> IF k = key THEN value ELSE lastSet[k]]
\* no response of the upstream API yet
NoFetched ==
    [contentType |-> <<>>, ok |-> FALSE, status |-> 0, text |-> "",
     data |-> NoData]

IdleCall ==
    [pc |-> "idle", code |-> <<>>, accountId |-> NoAccount, apiToken |-> NoToken,
     cacheKey |-> <<>>, worker |-> Undefined, arg |-> NoToken, sent |-> NoRequest,
     fetched |-> NoFetched, response |-> NoResponse, out |-> NoResult,
     reply |-> NoReply]

\* A call that also gives way while the worker is loaded: await between the
\* get and the set.
SuspendsAtLoad(pc) == pc \in {"built", "awaiting", "fetching"}

\* The only await of a call is await entrypoint.evaluate(...): the call is
\* suspended while the sandbox runs, and everything before the await runs
\* without another call getting in between.
Suspends(pc) == pc \in {"awaiting", "fetching"}

Completed(pc) == pc \in {"returned", "threw"}

\* The call on the stack after a step of call r that leaves it at pc.
RunningAfter(r, pc) == IF Suspends(pc) THEN 0 ELSE r

\* Call r may take its next synchronous step.
Scheduled(r) == running = r \/ (running = 0 /\ Suspends(req[r].pc))

\* The value spec has in the worker of id key: the embedded one unless code
\* has assigned to it.
SpecIn(key) == IF key \in DOMAIN heap THEN heap[key] ELSE SpecJson

\* The worker of a handle as it is now: its definition, with the value its
\* module-level const spec has now.
Isolate(worker) ==
    IF "spec" \in DOMAIN worker.definition
    THEN [worker.definition EXCEPT !.spec = SpecIn(worker.id.key)]
    ELSE worker.definition

\* History: the ranks after an access (a get that hits, a set) of key, kept
\* for the keys that stay cached.
Touch(ranks, key, live) ==
    LET stamp(k) == IF k = key THEN Cardinality(DOMAIN ranks) + 1
                    ELSE IF k \in DOMAIN ranks THEN ranks[k] ELSE 0
    IN  [k \in live |-> Cardinality({j \in live : stamp(j) < stamp(k)})]

Init ==
    /\ variant \in Variants
    /\ cache = <<>>
    /\ req = [r \in Slots |-> IdleCall]
    /\ running = 0
    /\ lastUse = [k \in {} |-> 0]
    /\ evicted = {}
    /\ heap = [k \in {} |-> SpecJson]
    /\ seen = [c \in {} |-> NoResult]
    /\ op = NoOp
    /\ lastSet = [k \in {} |-> Undefined]
    /\ http = NoHttp

\* An executor that does not look in the cache: every call builds a worker.
CallUncached(r, code, accountId, apiToken) ==
    /\ running = 0
    /\ req[r].pc = "idle"
    /\ \A q \in 1..(r - 1) : req[q].pc # "idle"
    /\ req' = [req EXCEPT ![r] =
                 [IdleCall EXCEPT !.pc = "miss", !.code = code,
                                  !.accountId = accountId,
                                  !.apiToken = apiToken,
                                  !.cacheKey = CacheKey(variant, code, accountId)]]
    /\ running' = r
    /\ evicted' = {}
    /\ op' = NoOp
    /\ UNCHANGED <<variant, cache, lastUse, heap, seen, lastSet, http>>

\* executor(code, accountId, apiToken) up to let worker = workerCache.get(cacheKey)
Call(r, code, accountId, apiToken) ==
    /\ running = 0
    /\ req[r].pc = "idle"
    /\ \A q \in 1..(r - 1) : req[q].pc # "idle"
    /\ LET key == CacheKey(variant, code, accountId)
           got == WorkerCacheGet(cache, key)
           pc  == IF got.value = Undefined THEN "miss" ELSE "ready"
       IN  /\ cache' = got.cache
           /\ req' = [req EXCEPT ![r] =
                        [IdleCall EXCEPT !.pc = pc, !.code = code,
                                         !.accountId = accountId,
                                         !.apiToken = apiToken,
                                         !.cacheKey = key,
                                         !.worker = got.value]]
           /\ lastUse' = IF got.value = Undefined THEN lastUse
                         ELSE Touch(lastUse, key, MapKeys(got.cache))
           /\ running' = RunningAfter(r, pc)
           /\ op' = GetOp(cache, key, got.value)
    /\ evicted' = {}
    /\ UNCHANGED <<variant, heap, seen, lastSet, http>>

\* worker = env.LOADER.get(workerId, () => definition) returns a handle; the
\* worker made from the definition starts with the spec embedded in it
InstantiateOk(r) ==
    /\ Scheduled(r)
    /\ req[r].pc = "miss"
    /\ LET key == req[r].cacheKey
           w   == [id |-> WorkerId(variant, key),
                   definition |-> WorkerDefinition(variant, req[r].code,
                                                   req[r].accountId,
                                                   req[r].apiToken)]
       IN  /\ req' = [req EXCEPT ![r].pc = "built", ![r].worker = w]
           /\ heap' = [k \in DOMAIN heap \ {key} |-> heap[k]]
    /\ running' = RunningAfter(r, "built")
    /\ evicted' = {}
    /\ op' = NoOp
    /\ UNCHANGED <<variant, cache, lastUse, seen, lastSet, http>>

\* env.LOADER.get throws: the exception leaves the executor
InstantiateFail(r) ==
    /\ Scheduled(r)
    /\ req[r].pc = "miss"
    /\ req' = [req EXCEPT ![r].pc = "threw",
                          ![r].out = [state |-> "threw", value |-> Undefined,
                                      error |-> JsError("Error", "LOADER.get failed")]]
    /\ running' = RunningAfter(r, "threw")
    /\ evicted' = {}
    /\ op' = NoOp
    /\ UNCHANGED <<variant, cache, lastUse, heap, seen, lastSet, http>>

\* workerCache.set(cacheKey, worker)
Register(r) ==
    /\ Scheduled(r)
    /\ req[r].pc = "built"
    /\ LET key == req[r].cacheKey
           m   == WorkerCacheSet(cache, key, req[r].worker, MaxSizeOf(variant))
       IN  /\ cache' = m
           /\ lastUse' = Touch(lastUse, key, MapKeys(m))
           /\ evicted' = MapKeys(cache) \ MapKeys(m)
           /\ op' = SetOp(cache, key, req[r].worker)
           /\ lastSet' = Stored(m, key, req[r].worker)
    /\ req' = [req EXCEPT ![r].pc = "ready"]
    /\ running' = RunningAfter(r, "ready")
    /\ UNCHANGED <<variant, heap, seen, http>>

\* worker.getEntrypoint().evaluate(apiToken) is called and awaited
Invoke(r) ==
    /\ Scheduled(r)
    /\ req[r].pc = "ready"
    /\ req' = [req EXCEPT ![r].pc = "awaiting",
                          ![r].arg = IF variant = "api" THEN req[r].apiToken
                                     ELSE NoToken]
    /\ running' = RunningAfter(r, "awaiting")
    /\ evicted' = {}
    /\ op' = NoOp
    /\ UNCHANGED <<variant, cache, lastUse, heap, seen, lastSet, http>>

\* evaluate in the sandbox: the embedded code runs up to its call of
\* cloudflare.request, which sends the request upstream
SandboxFetch(r) ==
    /\ running = 0
    /\ req[r].pc = "awaiting"
    /\ LET def == req[r].worker.definition
           run == RunCode(def)
       IN  /\ run.kind = "request"
           /\ req' = [req EXCEPT ![r].pc = "fetching",
                                 ![r].sent = UpstreamRequest(def, req[r].arg,
                                                             run.path)]
    /\ evicted' = {}
    /\ op' = NoOp
    /\ UNCHANGED <<variant, cache, running, lastUse, heap, seen, lastSet, http>>

\* evaluate ends without a request: the embedded code returned or threw, and
\* the outcome reaches the executor, whose call goes on
Settle(r) ==
    /\ running = 0
    /\ req[r].pc = "awaiting"
    /\ LET run == RunCode(Isolate(req[r].worker))
       IN  /\ run.kind \notin {"request", "fetch"}
           /\ req' = [req EXCEPT ![r].pc = "settled",
                                 ![r].response = BridgeOutcome(run)]
           /\ heap' = IF "spec" \in DOMAIN run
                      THEN (req[r].worker.id.key :> run.spec) @@ heap
                      ELSE heap
    /\ running' = RunningAfter(r, "settled")
    /\ evicted' = {}
    /\ op' = NoOp
    /\ UNCHANGED <<variant, cache, lastUse, seen, lastSet, http>>

\* the upstream API answers: cloudflare.request returns or throws, which is
\* what the embedded code returns or throws, and the outcome reaches the
\* executor
UpstreamRespond(r, resp) ==
    /\ running = 0
    /\ req[r].pc = "fetching"
    /\ LET end == RequestOutcome(resp)
       IN  req' = [req EXCEPT ![r].pc = "settled",
                              ![r].fetched = resp,
                              ![r].response = BridgeOutcome(end)]
    /\ running' = RunningAfter(r, "settled")
    /\ evicted' = {}
    /\ op' = NoOp
    /\ UNCHANGED <<variant, cache, lastUse, heap, seen, lastSet, http>>

\* An executor that drops the cached worker of a call that failed.
ResumeDropFailed(r) ==
    /\ Scheduled(r)
    /\ req[r].pc = "settled"
    /\ LET out == ServiceResult(req[r].response)
       IN  /\ req' = [req EXCEPT ![r].pc = out.state, ![r].out = out]
           /\ running' = RunningAfter(r, out.state)
           /\ cache' = IF out.state = "threw"
                       THEN MapDelete(cache, req[r].cacheKey) ELSE cache
           /\ lastUse' = [k \in MapKeys(cache') |-> lastUse[k]]
    /\ evicted' = {}
    /\ op' = NoOp
    /\ UNCHANGED <<variant, heap, seen, lastSet, http>>

\* the executor after the await: throw new Error(response.err) or return
\* response.result
Resume(r) ==
    /\ Scheduled(r)
    /\ req[r].pc = "settled"
    /\ LET out == ServiceResult(req[r].response)
       IN  /\ req' = [req EXCEPT ![r].pc = out.state, ![r].out = out]
           /\ running' = RunningAfter(r, out.state)
    /\ evicted' = {}
    /\ op' = NoOp
    /\ UNCHANGED <<variant, cache, lastUse, heap, seen, lastSet, http>>

\* the tool handler makes its response from the outcome of the call
Respond(r) ==
    /\ Scheduled(r)
    /\ Completed(req[r].pc)
    /\ ~req[r].reply.sent
    /\ req' = [req EXCEPT ![r].reply = ToolResponse(req[r].out)]
    /\ evicted' = {}
    /\ op' = NoOp
    /\ UNCHANGED <<variant, cache, running, lastUse, heap, seen, lastSet, http>>

\* the response leaves the handler: the call is over
Finish(r) ==
    /\ Scheduled(r)
    /\ Completed(req[r].pc)
    /\ req[r].reply.sent
    /\ req' = [req EXCEPT ![r] = IdleCall]
    /\ running' = 0
    /\ evicted' = {}
    /\ op' = NoOp
    /\ UNCHANGED <<variant, cache, lastUse, heap, seen, lastSet, http>>

CallApi(r) ==
    /\ variant = "api"
    /\ \E code \in ApiCodes, accountId \in Accounts, apiToken \in Tokens :
          Call(r, code, accountId, apiToken)

CallSearch(r) ==
    /\ variant = "search"
    /\ \E code \in SearchCodes : Call(r, code, NoAccount, NoToken)

\* The executor's steps that both factories have.
Step(r) ==
    \/ InstantiateOk(r)
    \/ InstantiateFail(r)
    \/ Register(r)
    \/ Invoke(r)
    \/ Settle(r)
    \/ Resume(r)
    \/ Respond(r)
    \/ Finish(r)

Next ==
    \E r \in Slots :
        \/ CallApi(r)
        \/ CallSearch(r)
        \/ Step(r)
        \/ SandboxFetch(r)
        \/ \E resp \in Responses : UpstreamRespond(r, resp)

Spec == Init /\ [][Next]_vars

\* The executor of createSearchExecutor.
SearchInit == Init /\ variant = "search"

SearchNext == \E r \in Slots : CallSearch(r) \/ Step(r)

SearchSpec == SearchInit /\ [][SearchNext]_vars

\* The executor of createCodeExecutor.
ApiInit == Init /\ variant = "api"

ApiNext ==
    \E r \in Slots :
        \/ CallApi(r)
        \/ Step(r)
        \/ SandboxFetch(r)
        \/ \E resp \in Responses : UpstreamRespond(r, resp)

\* The executor of createSearchExecutor called again and again with a few
\* codes, with the history of the first outcome of each code.
RepeatCodes == {CodeAa, CodeBB, CodeVoid, CodeToggle}

CallRepeat(r) ==
    /\ variant = "search"
    /\ \E code \in RepeatCodes : Call(r, code, NoAccount, NoToken)

\* Finish, with the history: the outcome of a call that ran its code in a
\* sandbox is kept if it is the first for its code.
FinishSeen(r) ==
    /\ Scheduled(r)
    /\ Completed(req[r].pc)
    /\ req[r].reply.sent
    /\ req' = [req EXCEPT ![r] = IdleCall]
    /\ running' = 0
    /\ evicted' = {}
    /\ op' = NoOp
    /\ seen' = IF req[r].code \in DOMAIN seen \/ req[r].worker = Undefined
               THEN seen
               ELSE (req[r].code :> req[r].out) @@ seen
    /\ UNCHANGED <<variant, cache, lastUse, heap, lastSet, http>>

RepeatNext ==
    \E r \in Slots :
        \/ CallRepeat(r)
        \/ InstantiateOk(r)
        \/ InstantiateFail(r)
        \/ Register(r)
        \/ Invoke(r)
        \/ Settle(r)
        \/ Resume(r)
        \/ Respond(r)
        \/ FinishSeen(r)

RepeatSpec == SearchInit /\ [][RepeatNext]_vars

ApiSpec == ApiInit /\ [][ApiNext]_vars

\* The caller's code calls the global fetch of its sandbox: the request
\* leaves the sandbox. The worker definitions of both factories give
\* compatibilityDate, compatibilityFlags, mainModule and modules and nothing
\* about outbound connections, and cloudflare.request of the API template
\* itself calls this fetch.
CodeFetches(r) ==
    /\ running = 0
    /\ req[r].pc = "awaiting"
    /\ LET run == RunCode(Isolate(req[r].worker))
       IN  /\ run.kind = "fetch"
           /\ req' = [req EXCEPT ![r].pc = "fetching",
                                 ![r].sent = [url |-> run.url,
                                              authorization |-> ""]]
    /\ evicted' = {}
    /\ op' = NoOp
    /\ UNCHANGED <<variant, cache, running, lastUse, heap, seen, lastSet, http>>

\* the fetch is answered: r.ok is what the code returns
CodeFetched(r) ==
    /\ running = 0
    /\ req[r].pc = "fetching"
    /\ req' = [req EXCEPT ![r].pc = "settled",
                          ![r].response = BridgeReturn(JsBoolean(TRUE))]
    /\ running' = RunningAfter(r, "settled")
    /\ evicted' = {}
    /\ op' = NoOp
    /\ UNCHANGED <<variant, cache, lastUse, heap, seen, lastSet, http>>

CallEgress(r) ==
    /\ variant = "search"
    /\ \E code \in EgressCodes : Call(r, code, NoAccount, NoToken)

\* The search executor, with code that uses what its sandbox gives it.
EgressNext ==
    \E r \in Slots :
        \/ CallEgress(r)
        \/ Step(r)
        \/ CodeFetches(r)
        \/ CodeFetched(r)

EgressSpec == SearchInit /\ [][EgressNext]_vars

\* The service's fetch handler, for the HTTP request that follows one that
\* has been answered: it calls createServer(env), which calls
\* createSearchExecutor(env), which makes a new WorkerCache. The tool calls of
\* the request go to this executor; the one before it is unreachable.
Fetch ==
    /\ \A r \in Slots : req[r].pc = "idle"
    /\ cache' = <<>>
    /\ lastUse' = [k \in {} |-> 0]
    /\ evicted' = {}
    /\ op' = NoOp
    /\ lastSet' = [k \in {} |-> Undefined]
    /\ UNCHANGED <<variant, req, running, heap, seen, http>>

\* The search executors of a sequence of HTTP requests.
HttpNext ==
    \/ Fetch
    \/ \E r \in Slots : CallSearch(r) \/ Step(r)

HttpSpec == SearchInit /\ [][HttpNext]_vars

(***************************************************************************)
(* The fetch handler with the token check, one HTTP request at a time.     *)
(***************************************************************************)
\* fetch up to await verifyToken(token): the token is taken from the header
\* or from the environment, and the handler returns a 401 without one.
AuthReceive(hostname, authHeader, envToken) ==
    /\ http.pc = "idle"
    /\ LET chosen == ChooseToken(hostname, authHeader, envToken)
           start  == [NoHttp EXCEPT !.hostname = hostname,
                                    !.authHeader = authHeader,
                                    !.envToken = envToken,
                                    !.token = chosen.token,
                                    !.source = chosen.source]
       IN  http' =
             IF chosen.malformed
             THEN [start EXCEPT !.pc = "answered",
                     !.response = jsonError("Invalid Authorization header format")]
             ELSE IF chosen.token = Null
             THEN [start EXCEPT !.pc = "answered",
                     !.response = jsonError("Authorization header required")]
             ELSE [start EXCEPT !.pc = "verifying"]
    /\ UNCHANGED <<variant, cache, req, running, lastUse, evicted, heap, seen,
                   op, lastSet>>

\* verifyToken returns: a 401 for a verification that is not valid, else
\* createServer and server.connect
AuthVerified(user, accounts) ==
    /\ http.pc = "verifying"
    /\ LET verification == verifyToken(user, accounts)
           got == [http EXCEPT !.user = user, !.accounts = accounts,
                               !.verification = verification]
       IN  http' =
             IF ~Admits(verification)
             THEN [got EXCEPT !.pc = "answered",
                     !.response = jsonError(IF Truthy(verification.error)
                                            THEN verification.error.s
                                            ELSE "Token verification failed")]
             ELSE [got EXCEPT !.pc = "serving", !.server = TRUE]
    /\ UNCHANGED <<variant, cache, req, running, lastUse, evicted, heap, seen,
                   op, lastSet>>

\* the response is returned
AuthDone ==
    /\ http.pc \in {"answered", "serving"}
    /\ http' = NoHttp
    /\ UNCHANGED <<variant, cache, req, running, lastUse, evicted, heap, seen,
                   op, lastSet>>

AuthNext ==
    \/ \E hostname \in Hostnames, authHeader \in AuthHeaders,
          envToken \in EnvTokens : AuthReceive(hostname, authHeader, envToken)
    \/ \E user \in UserResponses, accounts \in AccountsResponses :
          AuthVerified(user, accounts)
    \/ AuthDone

AuthSpec == SearchInit /\ [][AuthNext]_vars

(***************************************************************************)
(* simpleHash on its own: the first step of a call, for any code.          *)
(***************************************************************************)
\* The longest of the short codes.
MaxCodeLen == 4
\* code: every string of up to MaxCodeLen characters out of "\0", "a" and
\* "￿", the codes of the executors, and a long run of "￿"
HashInputs ==
    UNION {[1..n -> {0, 97, 65535}] : n \in 0..MaxCodeLen}
      \cup SearchCodes \cup ApiCodes \cup EgressCodes
      \cup {[i \in 1..40 |-> 65535]}

\* const codeHash = simpleHash(code)
HashCode(r, code) ==
    /\ req[r].pc = "idle"
    /\ req' = [req EXCEPT ![r] = [IdleCall EXCEPT !.pc = "hashed",
                                                  !.code = code,
                                                  !.cacheKey = simpleHash(code)]]
    /\ UNCHANGED <<variant, cache, running, lastUse, evicted, heap, seen, op,
                   lastSet, http>>

\* the call is over
HashDone(r) ==
    /\ req[r].pc = "hashed"
    /\ req' = [req EXCEPT ![r] = IdleCall]
    /\ UNCHANGED <<variant, cache, running, lastUse, evicted, heap, seen, op,
                   lastSet, http>>

HashNext ==
    \E r \in Slots :
        \/ \E code \in HashInputs : HashCode(r, code)
        \/ HashDone(r)

HashSpec == SearchInit /\ [][HashNext]_vars

(***************************************************************************)
(* A WorkerCache on its own, under any sequence of get and set.            *)
(***************************************************************************)
\* "k1" .. "k4"
TestKeys == {<<107, 49>>, <<107, 50>>, <<107, 51>>, <<107, 52>>}
TestValues == {[id |-> "w1"], [id |-> "w2"]}

\* workerCache.get(key)
CacheGet(key) ==
    /\ LET got == WorkerCacheGet(cache, key)
       IN  /\ cache' = got.cache
           /\ lastUse' = IF got.value = Undefined THEN lastUse
                         ELSE Touch(lastUse, key, MapKeys(got.cache))
           /\ op' = GetOp(cache, key, got.value)
    /\ evicted' = {}
    /\ UNCHANGED <<variant, req, running, heap, seen, lastSet, http>>

\* workerCache.set(key, value)
CacheSet(key, value) ==
    /\ LET m == WorkerCacheSet(cache, key, value, MaxSizeOf(variant))
       IN  /\ cache' = m
           /\ lastUse' = Touch(lastUse, key, MapKeys(m))
           /\ evicted' = MapKeys(cache) \ MapKeys(m)
           /\ op' = SetOp(cache, key, value)
           /\ lastSet' = Stored(m, key, value)
    /\ UNCHANGED <<variant, req, running, heap, seen, http>>

CacheNext ==
    \E key \in TestKeys :
        \/ CacheGet(key)
        \/ \E value \in TestValues : CacheSet(key, value)

CacheSpec == Init /\ [][CacheNext]_vars

(***************************************************************************)
(* The cache.                                                              *)
(***************************************************************************)
\* C1: under any sequence of get and set, a WorkerCache never holds more
\* entries than the maximum it was built with.
CacheBound == Len(cache) <= MaxSizeOf(variant)

\* A set has evicted from a cache that was full and is full again.
CacheBoundWitness ==
    /\ evicted # {}
    /\ Len(cache) = MaxSizeOf(variant)

\* The keys that a step leaves in the cache.
Kept == MapKeys(cache) \cap MapKeys(cache')

\* C2: a set of a key that is not cached, on a full cache, removes one entry,
\* the one whose last access (a get that hit, a set) is the oldest; no entry
\* is removed while an entry accessed less recently stays.
LruEviction ==
    [][/\ \A gone \in MapKeys(cache) \ MapKeys(cache') :
            \A kept \in Kept : lastUse[gone] < lastUse[kept]
       /\ Len(cache) = MaxSizeOf(variant) /\ MapKeys(cache') \ MapKeys(cache) # {}
            => Cardinality(MapKeys(cache) \ MapKeys(cache')) = 1]_vars

\* A set has evicted an entry that was not the oldest inserted: the entry
\* that stays at the front was get again after the evicted one was set.
LruEvictionWitness ==
    /\ evicted = {<<107, 50>>}
    /\ Len(cache) = MaxSizeOf(variant)
    /\ cache[1].key = <<107, 49>>
    /\ variant = "search"

(***************************************************************************)
(* The executors.                                                          *)
(***************************************************************************)
\* The calls that hold a worker handle: from the hit or the build on.
Holding == {r \in Slots : req[r].worker # Undefined}

\* C3: two requests with different code never resolve to the same sandbox:
\* the worker a call holds was built for the code of that call, also when
\* another code has the same derived key.
OwnCodeOnly ==
    \A r \in Holding : req[r].worker.definition.code = req[r].code

\* The cached handles built for the code and account of call r as it is after
\* the step.
CachedFor(r) ==
    {cache[i].value : i \in
        {j \in 1..Len(cache) :
            cache[j].value.definition =
                WorkerDefinition(variant, req'[r].code, req'[r].accountId,
                                 req'[r].apiToken)}}

\* C4: a call whose (code, accountId) has its sandbox in the cache takes that
\* handle and does not instantiate; a sandbox is instantiated only for a
\* key that the cache does not hold.
SandboxReuse ==
    [][\A r \in Slots :
         /\ req[r].pc = "idle" /\ req'[r].pc # "idle"
              => \A w \in CachedFor(r) :
                     req'[r].pc = "ready" /\ req'[r].worker = w
         /\ req[r].pc = "miss" /\ req'[r].pc = "built"
              => ~MapHas(cache, req[r].cacheKey)]_vars

\* A call hit the handle that a call still in flight built or hit, for the
\* same code and account and with another credential.
SandboxReuseWitness ==
    \E r1, r2 \in Slots :
        /\ req[r1].pc = "awaiting" /\ req[r2].pc = "ready"
        /\ req[r1].code = req[r2].code
        /\ req[r1].accountId = req[r2].accountId
        /\ req[r1].apiToken # req[r2].apiToken
        /\ req[r1].worker = req[r2].worker
        /\ MapGet(cache, req[r2].cacheKey) = req[r2].worker

\* C5: concurrent calls for a key that is not cached build and register one
\* sandbox: a call registers a handle only under a key the cache does not
\* hold, and while no other call is between its miss and its set for that
\* key.
SingleBuild ==
    [][\A r \in Slots :
         req[r].pc = "built" /\ req'[r].pc = "ready"
           => /\ ~MapHas(cache, req[r].cacheKey)
              /\ \A q \in Slots \ {r} :
                    ~(req[q].pc \in {"miss", "built"}
                      /\ req[q].cacheKey = req[r].cacheKey)]_vars

\* Two calls for one key are in flight at once: one built the sandbox, the
\* other came while the first was awaiting and hit it.
SingleBuildWitness ==
    \E r1, r2 \in Slots :
        /\ r1 # r2
        /\ req[r1].pc = "awaiting" /\ req[r2].pc = "awaiting"
        /\ req[r1].cacheKey = req[r2].cacheKey
        /\ req[r1].worker = req[r2].worker
        /\ Len(cache) = 1

\* The calls whose evaluate has ended after running the embedded code.
Evaluated ==
    {r \in Slots :
        /\ req[r].pc \in {"settled", "returned", "threw"}
        /\ req[r].worker # Undefined
        /\ RunCode(req[r].worker.definition).kind \in {"return", "throw"}}

\* C6: evaluate gives one of two outcome forms: for code that throws, the
\* error with a message that is not empty and no result; for code that
\* returns, the result and no error.
OutcomeForm ==
    \A r \in Evaluated :
        LET run  == RunCode(req[r].worker.definition)
            resp == req[r].response
        IN  /\ resp.state = "fulfilled"
            /\ run.kind = "throw"
                  => /\ resp.err.t = "string" /\ resp.err.s # ""
                     /\ resp.result = Undefined
            /\ run.kind = "return" => resp.err = Undefined

\* C7: when the bridge reports the error form the call of the executor
\* fails, and it returns a value only when the bridge reported the result
\* form.
BridgeErrorFails ==
    \A r \in Slots :
        Completed(req[r].pc) /\ req[r].response.state = "fulfilled"
          => /\ req[r].response.err # Undefined => req[r].out.state = "threw"
             /\ req[r].out.state = "returned"
                  => /\ req[r].response.err = Undefined
                     /\ req[r].out.value = req[r].response.result

\* C8: the credential is not part of the cached sandbox: a cached definition
\* is the same whatever the credential of the call that built it, evaluate
\* is given the credential of the call, and every upstream request carries
\* the credential of the call that makes it.
CredentialPerCall ==
    /\ \A i \in 1..Len(cache) : \A apiToken \in Tokens :
          cache[i].value.definition =
              WorkerDefinition(variant, cache[i].value.definition.code,
                               cache[i].value.definition.accountId, apiToken)
    /\ \A r \in Slots :
          /\ req[r].pc \in {"awaiting", "fetching"} => req[r].arg = req[r].apiToken
          /\ req[r].pc = "fetching"
                => req[r].sent.authorization = "Bearer " \o req[r].apiToken

\* Two calls with the same code and account and different credentials share
\* one sandbox, and each has sent its request with its own credential.
CredentialPerCallWitness ==
    \E r1, r2 \in Slots :
        /\ req[r1].pc = "fetching" /\ req[r2].pc = "fetching"
        /\ req[r1].worker = req[r2].worker
        /\ req[r1].apiToken # req[r2].apiToken
        /\ req[r1].sent.authorization # req[r2].sent.authorization

NoUnbuiltHandleCached ==
    \A i \in 1..Len(cache) :
        RunCode(cache[i].value.definition).kind # "unloadable"

(***************************************************************************)
(* The tool handlers.                                                      *)
(***************************************************************************)
\* The calls whose handler has made its response.
Answered == {r \in Slots : req[r].reply.sent}

\* The call met a fault: no sandbox could be made for it, or its evaluate
\* rejected or reported an error, or the code it ran threw.
Faulted(r) ==
    \/ req[r].worker = Undefined
    \/ req[r].response.state = "rejected"
    \/ req[r].response.err # Undefined
    \/ RunCode(req[r].worker.definition).kind \in {"throw", "unloadable"}

\* C11: a call of a tool handler ends with one response: the truncated
\* result on success, and for every fault (of the user code, of the upstream
\* API, of the construction of the sandbox) the response flagged isError.
HandlerReports ==
    \A r \in Answered :
        IF Faulted(r) THEN req[r].reply.isError
        ELSE /\ ~req[r].reply.isError
             /\ req[r].reply.text = truncateResponse(req[r].out.value)

(***************************************************************************)
(* The specification snapshot of the search workers.                       *)
(***************************************************************************)
\* C13: the snapshot in a search sandbox is read-only: in every worker the
\* cache holds, spec has the value embedded when the worker was built.
SnapshotReadOnly ==
    \A i \in 1..Len(cache) :
        "spec" \in DOMAIN cache[i].value.definition
          => SpecIn(cache[i].key) = cache[i].value.definition.spec

\* C12: two calls of the search executor with the same code and the same
\* snapshot give the same result, whatever ran in between and whether the
\* later call hits the sandbox of the earlier one or a rebuilt one.  (Calls
\* for which env.LOADER.get threw ran no code and are left out.)
Deterministic ==
    \A r \in Slots :
        /\ Completed(req[r].pc)
        /\ req[r].worker # Undefined
        /\ req[r].code \in DOMAIN seen
        => req[r].out = seen[req[r].code]


\* C14: the caches live as long as the service process: an entry leaves the
\* cache only by being evicted in a set, so a sandbox cached while one HTTP
\* request was handled is found by the next one.
CacheOutlivesRequest ==
    [][MapKeys(cache) \ MapKeys(cache') \subseteq evicted']_vars


\* The calls whose code has had the response of its request, and how
\* evaluate's result tells a raised failure from a returned value.
Fetched == {r \in Slots : req[r].fetched # NoFetched}
IsJson(resp) == Includes(resp.contentType, ApplicationJson)
CodeAndMessage(e) == ToDecimal(e.code) \o ": " \o e.message
Listed(errors) ==
    CASE Len(errors) = 1 -> CodeAndMessage(errors[1])
      [] Len(errors) = 2 ->
            CodeAndMessage(errors[1]) \o ", " \o CodeAndMessage(errors[2])
      [] OTHER -> ""
Raised(res, message) ==
    /\ res.state = "fulfilled"
    /\ res.result = Undefined
    /\ res.err = JsString("Cloudflare API error: " \o message)
Returned(res, fields) ==
    /\ res.state = "fulfilled"
    /\ res.err = Undefined
    /\ res.result = JsObject(fields)

\* C15: cloudflare.request ends in one of four ways, decided by the response:
\* not JSON and ok: returns {success: true, result: text}; not JSON and not
\* ok: throws with the status and the text; JSON with success false: throws
\* with "code: message" of every error, in order; JSON with success true:
\* returns the envelope as it came.
RequestOutcomes ==
    \A r \in Fetched :
        LET resp == req[r].fetched
            res  == req[r].response
        IN  /\ ~IsJson(resp) /\ resp.ok
                => Returned(res, [success |-> TRUE, result |-> resp.text])
            /\ ~IsJson(resp) /\ ~resp.ok
                => Raised(res, ToDecimal(resp.status) \o " " \o resp.text)
            /\ IsJson(resp) /\ ~resp.data.success
                => Raised(res, Listed(resp.data.errors))
            /\ IsJson(resp) /\ resp.data.success
                => Returned(res, resp.data)

RequestOutcomesWitness ==
    \E r \in Fetched :
        /\ IsJson(req[r].fetched) /\ Len(req[r].fetched.data.errors) = 2
        /\ req[r].response.err
             = JsString("Cloudflare API error: 1000: bad auth, 7003: no route")


\* C16: code that runs in a search sandbox makes no outbound request: no call
\* of the search executor is ever waiting for one, or has sent one.
NoSearchEgress ==
    variant = "search"
        => \A r \in Slots : req[r].pc # "fetching" /\ req[r].sent = NoRequest


\* The calls whose handler returned a result.
Succeeded == {r \in Answered : ~req[r].reply.isError}

Executing == {r \in Slots : Suspends(req[r].pc)}

\* C18: while a call is awaiting evaluate, the key of its sandbox is in the
\* cache: no set of another call evicts the entry of a sandbox that is
\* executing.
InUseIsCached ==
    \A r \in Executing : MapHas(cache, req[r].cacheKey)


\* C19: whatever the interleaving of the calls, the cache is what its gets
\* and sets, taken one after the other, make it: every key is there once,
\* the size is the number of keys and within maxSize, and the entries are in
\* the order of the last hit or set of their keys.
CacheLinearizable ==
    /\ \A i, j \in 1..Len(cache) : cache[i].key = cache[j].key => i = j
    /\ Len(cache) = Cardinality(MapKeys(cache))
    /\ Len(cache) <= MaxSizeOf(variant)
    /\ DOMAIN lastUse = MapKeys(cache)
    /\ \A i, j \in 1..Len(cache) :
          i < j => lastUse[cache[i].key] < lastUse[cache[j].key]

\* A call hit the entry that another call, still suspended, had set before
\* two other entries, in a full cache: the entry is now the newest.
CacheLinearizableWitness ==
    \E r1, r2 \in Executing :
        /\ r1 # r2
        /\ req[r1].cacheKey = req[r2].cacheKey
        /\ Len(cache) = MaxSizeOf(variant)
        /\ cache[Len(cache)].key = req[r1].cacheKey


\* Account ids for the key derivation: the strings of "a", ":", "1" of up
\* to three characters.
KeyAccounts ==
    UNION {[1..n -> {97, 58, 49}] : n \in 0..3}
KeyTellsAccount ==
    \A a1, a2 \in KeyAccounts : \A c1, c2 \in DOMAIN codeHash :
        CacheKey("api", c1, a1) = CacheKey("api", c2, a2) => a1 = a2

\* C20: the worker an API call holds, from a hit or from a build, embeds the
\* accountId of that call and the apiBase of the executor, and code that
\* returns accountId returns the call's own, also for an account id with ":".
\* No two account ids (here: all strings of "a", ":", "1" up to three
\* characters) give the same key, whatever the codes.
EmbeddedAccount ==
    variant = "api" =>
        /\ KeyTellsAccount
        /\ \A r \in Holding :
              /\ req[r].worker.definition.accountId = req[r].accountId
              /\ req[r].worker.definition.apiBase = ApiBase
              /\ req[r].pc = "returned" /\ req[r].code = CodeAccountId
                    => req[r].out.value = JsText(req[r].accountId)

\* Two calls for the account "a:b" are in evaluate on one worker while the
\* cache also has the worker of the same code for the account "a".
EmbeddedAccountWitness ==
    \E r1, r2 \in Executing :
        /\ r1 # r2
        /\ req[r1].worker = req[r2].worker
        /\ req[r1].accountId = <<97, 58, 98>>
        /\ req[r1].worker.definition.accountId = <<97, 58, 98>>
        /\ \E i \in 1..Len(cache) :
              /\ cache[i].value.definition.code = req[r1].code
              /\ cache[i].value.definition.accountId = <<97>>


(***************************************************************************)
(* The order of the steps of one request.                                  *)
(***************************************************************************)
\* The invocation of the call failed: evaluate rejected or reported an
\* error, or the code it ran threw or could not be loaded.
InvocationFailed(r) ==
    \/ req[r].response.state = "rejected"
    \/ req[r].response.err # Undefined
    \/ RunCode(req[r].worker.definition).kind \in {"throw", "unloadable"}

\* C21: in one request the cache lookup (with the build and the set on a
\* miss) comes before the invocation and the invocation before the truncation,
\* and truncateResponse runs only for a successful result, never for a request
\* whose invocation failed.
StepOrder ==
    \A r \in Slots :
        /\ req[r].pc \in {"awaiting", "fetching", "settled"}
              => /\ req[r].worker # Undefined
                 /\ req[r].cacheKey
                      = CacheKey(variant, req[r].code, req[r].accountId)
                 /\ ~req[r].reply.sent
        /\ req[r].response # NoResponse => req[r].worker # Undefined
        /\ req[r].reply.sent => Completed(req[r].pc)
        /\ req[r].reply.sent /\ ~req[r].reply.isError
              => /\ req[r].response # NoResponse
                 /\ req[r].reply.text = truncateResponse(req[r].out.value)
                 /\ ~InvocationFailed(r)


(***************************************************************************)
(* The operations of WorkerCache, one at a time.                           *)
(***************************************************************************)
\* The other entries of the map, in their order.
Others(m, key) == SelectSeq(m, LAMBDA e : e.key # key)
\* The newest entry of the map.
Newest(m) == m[Len(m)]

\* C22: a get that hits returns the value last set for the key and makes the
\* key the most recently used; the keys, the values and the order of the
\* other entries stay. A get that misses returns undefined and leaves the
\* cache as it is.
GetFrame ==
    [][op'.name = "get" =>
         LET key == op'.key
         IN  IF key \in MapKeys(cache)
             THEN /\ op'.value = lastSet[key]
                  /\ MapKeys(cache') = MapKeys(cache)
                  /\ Len(cache') = Len(cache)
                  /\ Newest(cache') = [key |-> key, value |-> lastSet[key]]
                  /\ Others(cache', key) = Others(cache, key)
             ELSE /\ op'.value = Undefined
                  /\ cache' = cache]_vars

\* A get has hit a key that was set twice, with two values, and the key is
\* the newest of three entries.
GetFrameWitness ==
    /\ op.name = "get" /\ op.had
    /\ op.key = <<107, 49>>
    /\ op.value = [id |-> "w2"]
    /\ Len(cache) = 3
    /\ Newest(cache).key = op.key

\* C23: a set ends with the key in the cache, with the value given, as the
\* most recently used. If the key was there, nothing else is evicted and the
\* size stays, also in a full cache; if the key is new and the cache is full,
\* one entry is evicted and the size stays at the maximum; if the key is new
\* and the cache is not full, nothing is evicted and the size grows by one.
SetEffect ==
    [][op'.name = "set" =>
         LET key  == op'.key
             gone == MapKeys(cache) \ MapKeys(cache')
             full == Len(cache) = MaxSizeOf(variant)
         IN  /\ Len(cache') > 0
             /\ Newest(cache') = [key |-> key, value |-> op'.value]
             /\ Len(cache') = Cardinality(MapKeys(cache'))
             /\ key \in MapKeys(cache)
                   => gone = {} /\ Len(cache') = Len(cache)
                        /\ Others(cache', key) = Others(cache, key)
             /\ key \notin MapKeys(cache) /\ full
                   => Cardinality(gone) = 1 /\ Len(cache') = MaxSizeOf(variant)
             /\ key \notin MapKeys(cache) /\ ~full
                   => gone = {} /\ Len(cache') = Len(cache) + 1
                        /\ Others(cache', key) = cache]_vars

\* A key of a full cache has been set again, with another value: the cache
\* is still full and nothing was evicted.
SetEffectWitness ==
    /\ op.name = "set" /\ op.had
    /\ evicted = {}
    /\ Len(cache) = MaxSizeOf(variant)
    /\ Newest(cache) = [key |-> op.key, value |-> [id |-> "w2"]]
    /\ lastUse[op.key] = Len(cache) - 1


(***************************************************************************)
(* The key derivation.                                                     *)
(***************************************************************************)
\* h := 31 * h + charCode wrapped to the signed 32-bit range, folded over the
\* first n characters of str from 0.  (31 * h is taken on the 16-bit halves
\* of h.)
RECURSIVE Fold31(_, _)
Fold31(str, n) ==
    IF n = 0 THEN 0
    ELSE [h \in Int |->
            LET t  == 31 * (h % 65536) + str[n]
                hi == 31 * (h \div 65536) + (t \div 65536)
            IN  (((hi + 32768) % 65536) - 32768) * 65536 + (t % 65536)
         ][Fold31(str, n - 1)]

\* The value of a digit of base 36, -1 for another character.
DigitValue(c) ==
    IF c \in 48..57 THEN c - 48 ELSE IF c \in 97..122 THEN c - 87 ELSE -1

\* The number that the first n characters after position from of a base-36
\* token stand for, taken with the sign: s * (d1 d2 ... dn in base 36).
RECURSIVE Base36Value(_, _, _, _)
Base36Value(token, from, n, sign) ==
    IF n = 0 THEN 0
    ELSE [v \in Int |-> v * 36 + sign * DigitValue(token[from + n])
         ][Base36Value(token, from, n - 1, sign)]

\* token is the base-36 rendering of value: digits 0-9a-z, "-" in front of a
\* negative number, no leading zero.
RendersBase36(token, value) ==
    LET negative == Len(token) > 0 /\ token[1] = 45
        from     == IF negative THEN 1 ELSE 0
        n        == Len(token) - from
    IN  /\ n >= 1
        /\ \A i \in 1..n : DigitValue(token[from + i]) >= 0
        /\ n > 1 => token[from + 1] # 48
        /\ negative => value < 0
        /\ Base36Value(token, from, n, IF negative THEN -1 ELSE 1) = value

Hashed == {r \in Slots : req[r].pc = "hashed"}

\* C24: simpleHash is a function of the code: equal codes have equal tokens,
\* the empty code has "0", and the token of a code is the base-36 rendering
\* of the signed 32-bit value of h := 31 * h + charCode folded over the code
\* from 0.
HashIsFold31 ==
    /\ \A r \in Hashed :
          /\ RendersBase36(req[r].cacheKey, Fold31(req[r].code, Len(req[r].code)))
          /\ req[r].code = <<>> => req[r].cacheKey = <<48>>
    /\ \A r1, r2 \in Hashed :
          req[r1].code = req[r2].code => req[r1].cacheKey = req[r2].cacheKey

\* The hash of the code has wrapped: the token of forty "￿" is negative;
\* the other call has the empty code.
HashIsFold31Witness ==
    \E r1, r2 \in Hashed :
        /\ req[r1].code = [i \in 1..40 |-> 65535]
        /\ req[r1].cacheKey[1] = 45
        /\ req[r2].code = <<>>


(***************************************************************************)
(* The token check of the fetch handler.                                   *)
(***************************************************************************)
\* C25: the handler creates and connects a server only after it has a token
\* and verifyToken reported it valid; in every other case (no token, a
\* header without a token, a verification that is not valid) it answers
\* with a 401 JSON error and creates no server.
ServerOnlyWhenVerified ==
    /\ http.server
          => /\ http.pc = "serving"
             /\ http.token # Null
             /\ http.verification.valid
    /\ http.pc = "answered"
          => /\ ~http.server
             /\ http.response.status = 401
             /\ http.response.contentType = "application/json"
             /\ http.response.body.error # ""
    /\ http.pc = "serving" => http.server
    /\ http.pc \in {"answered", "serving"}
          /\ (http.token = Null \/ ~http.verification.valid)
          => http.pc = "answered"

\* A request with a Bearer header is served after its token was verified
\* through the single account it has access to.
ServerOnlyWhenVerifiedWitness ==
    /\ http.pc = "serving"
    /\ http.server
    /\ http.source = "header"
    /\ http.token = JsText(<<116, 111, 107, 65>>)
    /\ http.verification.valid
    /\ ~http.user.success

\* The Authorization header is there and holds no Bearer token.
NoBearer(authHeader) ==
    authHeader # Null /\ extractToken(authHeader) = Null
LocalHostnames == {"localhost", "127.0.0.1", "0.0.0.0"}

\* C26: the token of the environment is used only for a request without an
\* Authorization header to localhost, 127.0.0.1 or 0.0.0.0; a request with an
\* Authorization header that holds no Bearer token is rejected and the
\* environment is not asked for it, also on localhost.
EnvTokenOnlyWithoutHeader ==
    http.pc # "idle" =>
        /\ http.source = "env" /\ http.token # Null
              => http.authHeader = Null /\ http.hostname \in LocalHostnames
        /\ NoBearer(http.authHeader)
              => /\ http.pc = "answered"
                 /\ http.response.status = 401
                 /\ ~(http.source = "env" /\ http.token # Null)

\* verifyToken has returned for the answers user and accounts.
Verified == http.user # Thrown("")
Threw == http.user.kind = "throws" \/ http.accounts.kind = "throws"
UserSucceeded == ~Threw /\ http.user.success
OneAccount ==
    /\ ~Threw
    /\ http.accounts.success
    /\ http.accounts.result # Undefined
    /\ Len(http.accounts.result.items) = 1

\* C27: verifyToken reports valid exactly when the verification of the user
\* token succeeded, or it did not and the listing of the accounts succeeded
\* with one account, whose id is the accountId; it reports invalid when the
\* listing failed, is empty or has more accounts, and when a call throws; it
\* never reports valid with an error.
VerifyTokenReports ==
    Verified =>
        /\ http.verification.valid <=> (UserSucceeded \/ OneAccount)
        /\ http.verification.valid /\ ~UserSucceeded
              => http.verification.accountId
                   = JsString(http.accounts.result.items[1])
        /\ Threw => ~http.verification.valid
        /\ http.verification.valid => http.verification.error = Undefined

\* The user token was not verified, the accounts are one: valid, with the id.
VerifyTokenReportsWitness ==
    /\ Verified
    /\ ~UserSucceeded /\ OneAccount
    /\ http.verification = Verification(TRUE, JsString("acc1"), Undefined)

====
